---- MODULE Spec2Model ----
(***************************************************************************)
(* Model of the data service (services/dataService.js, here                *)
(* src/unnamed/part_007) and the database service                          *)
(* (services/databaseService.js, here src/unnamed/part_008).               *)
(*                                                                         *)
(* The relational store is the only shared state.  Every `await            *)
(* pool.query(...)` is one atomic step of a caller; callers interleave     *)
(* between their queries.  A query may also reject (the store throws).     *)
(***************************************************************************)
EXTENDS Integers, Sequences, FiniteSets, TLC

\* ------------------------------------------------------------------ bounds
Procs == {1, 2}
MaxOps == 2

\* ------------------------------------------------------------- JS values
S(x) == [ty |-> "string", v |-> x]
N(x) == [ty |-> "number", v |-> x]
B(x) == [ty |-> "boolean", v |-> x]

\* JavaScript truthiness, as used by `if (data[field])`
Truthy(x) == x \notin {S(""), N("0"), B("false")}

None == <<>>
Some(x) == <<x>>

EmptyMap == [k \in {} |-> S("")]

Keys(m) == DOMAIN m

\* { ...a, ...b }
Spread(a, b) == [k \in Keys(a) \cup Keys(b) |-> IF k \in Keys(b) THEN b[k] ELSE a[k]]

Without(m, ks) == [k \in Keys(m) \ ks |-> m[k]]

\* ---------------------------------------------------------------- cipher
\* crypto.AES.encrypt(...).toString(): an opaque ciphertext that carries
\* the UTF-8 plaintext it was made from.
Ct(text) == [ct |-> text]

\* What AES.encrypt does with a message that is not a string is decided by
\* crypto-js, not by this repository: it may throw, or produce a ciphertext
\* of an empty message, or of the message's string form.
NonStringOutcomes == {"throw", "empty", "tostring"}

AESencrypt(x, how) ==
    IF x.ty = "string" THEN Ct(x.v)
    ELSE IF how = "empty" THEN Ct("")
    ELSE Ct(x.v)

\* A ciphertext that does not belong to the current key (a corrupted value,
\* or one written under another ENCRYPTION_KEY).  Its bytes decide what
\* decryption does with it: the decrypted bytes are malformed UTF-8 and
\* toString throws, or they come out as an empty string.
GarbledOutcomes == {"throw", "empty"}

Garbled(how) == [ct |-> "", garbled |-> how]

IsGarbled(c) == "garbled" \in DOMAIN c

DecryptThrows(c) == IsGarbled(c) /\ c.garbled = "throw"

\* AES.decrypt(...).toString(crypto.enc.Utf8): always a string
AESdecrypt(c) == S(c.ct)

fieldsToEncrypt == {"password", "token", "secret"}

EncryptedKeys(data) == {f \in fieldsToEncrypt \cap Keys(data) : Truthy(data[f])}

EncryptThrows(data, how) ==
    how = "throw" /\ \E f \in EncryptedKeys(data) : data[f].ty # "string"

\* the encrypted fields left in the cleartext copy
encryptSensitiveFieldsKeeping(data, how) ==
    [data |-> data,
     encryptedFields |-> [f \in EncryptedKeys(data) |-> AESencrypt(data[f], how)]]

encryptSensitiveFields(data, how) ==
    [data |-> Without(data, EncryptedKeys(data)),
     encryptedFields |-> [f \in EncryptedKeys(data) |-> AESencrypt(data[f], how)]]

\* a field whose decryption throws is logged and left out
decryptSensitiveFields(data, encryptedFields) ==
    Spread(data, [f \in {g \in Keys(encryptedFields) : ~DecryptThrows(encryptedFields[g])} |->
                     AESdecrypt(encryptedFields[f])])

\* ---------------------------------------------------------------- inputs
Users == {1, 2}
NoUser == 0
LogicalTables == {"inventory"}

Payloads ==
    { [name |-> S("a")],
      [name |-> S("b"), password |-> S("s1")],
      [token |-> S("t1")],
      [name |-> S("a"), password |-> N("42")],
      [password |-> S("")] }

DefaultLimit == 100
Limits == {1, DefaultLimit}

\* ----------------------------------------------------------------- state
VARIABLES
    data_storage,   \* id -> row of the data_storage relation
    audit_logs,     \* sequence of rows of the audit_logs relation
    nextId,         \* the SERIAL of data_storage.id
    clock,          \* CURRENT_TIMESTAMP, advanced by every write
    proc,           \* per caller: position in its call, locals, result
    calls,          \* number of calls started so far (names each call)
    mutated,        \* calls whose INSERT/UPDATE/DELETE statement took effect
    submitted,      \* id -> the payload a successful insertData was given
    tables,         \* the required tables that exist in schema public
    indexes,        \* the required indexes that exist
    users,          \* ids of the rows of the users relation
    connection_strings, \* id -> user_id of the rows of connection_strings
    grants,         \* the privilege probes of checkPermissions that are true
    failing,        \* the store operations that reject, for as long as they do
    fix,            \* the results of the autoFixSchema calls since the last drift
    diag,           \* the result of the last runDiagnostics call
    repair,         \* the result of the last repairIndexes call
    account,        \* the row of the users relation that logs in
    now,            \* Date.now(), in minutes
    variant,        \* which of the two user services is deployed
    login,          \* the last loginUser call and what it returned
    trail,          \* the failed attempts since the last successful login
    dbUp,           \* whether the pool of server.js reaches its database
    test_strings,   \* the test_strings relation of server.js
    inMemoryStorage,\* the fallback list of server.js
    memNextId,      \* nextId of server.js, the id of the next fallback entry
    http            \* the last request of server.js and its response

storeVars == <<data_storage, audit_logs, nextId, clock, proc, calls, mutated, submitted>>

catVars == <<tables, indexes, users, connection_strings, grants, failing, fix, diag, repair>>

authVars == <<account, now, variant, login, trail>>

stringVars == <<dbUp, test_strings, inMemoryStorage, memNextId, http>>

extVars == <<authVars, stringVars>>

vars == <<storeVars, catVars, extVars>>

NotFoundMsg == "Record not found or access denied"

NoResult == [success |-> FALSE, message |-> "", id |-> 0, rows |-> <<>>, total |-> 0]

Idle == [pc |-> "idle", kind |-> "none", call |-> 0, id |-> 0, userId |-> NoUser,
         tableName |-> "", data |-> EmptyMap, limit |-> 0,
         existing |-> None, cleanData |-> EmptyMap,
         foreign |-> FALSE, threw |-> FALSE, affected |-> 0, prior |-> None,
         result |-> NoResult]

Fail(msg) == [NoResult EXCEPT !.message = msg]
Ok(msg, id) == [NoResult EXCEPT !.success = TRUE, !.message = msg, !.id = id]

\* the ownership condition dropped from the WHERE clause
MatchRowsAnyOwner(id, userId) ==
    {i \in DOMAIN data_storage : i = id}

\* WHERE id = $1 AND user_id = $2
MatchRows(id, userId) ==
    {i \in DOMAIN data_storage : i = id /\ data_storage[i].user_id = userId}

\* the record exists but belongs to somebody else
Foreign(id, userId) ==
    id \in DOMAIN data_storage /\ data_storage[id].user_id # userId

\* a caller starts its next call once its previous one has returned
CanStart(p) == proc[p].pc \in {"idle", "done"} /\ calls < MaxOps

Begin(p, kind, id, userId, tableName, data) ==
    [Idle EXCEPT !.kind = kind, !.call = calls + 1, !.id = id, !.userId = userId,
                 !.tableName = tableName, !.data = data]

Finish(st, res) == [st EXCEPT !.pc = "done", !.result = res]

\* the catch block of a handler: { success: false, message, error }
Caught(st, msg) == Finish([st EXCEPT !.threw = TRUE], Fail(msg))

\* old_values and new_values bound the wrong way round
AuditRowSwapped(st, action, tableName, oldValues, newValues) ==
    [user_id |-> st.userId, action |-> action, table_name |-> tableName,
     record_id |-> st.id, old_values |-> newValues, new_values |-> oldValues,
     call |-> st.call,
     logical |-> IF st.existing = None THEN st.tableName ELSE st.existing[1].table_name]

\* call and logical are not columns: the call that wrote the row, and the
\* logical table of the record the row is about
AuditRow(st, action, tableName, oldValues, newValues) ==
    [user_id |-> st.userId, action |-> action, table_name |-> tableName,
     record_id |-> st.id, old_values |-> oldValues, new_values |-> newValues,
     call |-> st.call,
     logical |-> IF st.existing = None THEN st.tableName ELSE st.existing[1].table_name]

\* the trail keeps only the latest entry
logDataOperationReplacing(st, action, tableName, oldValues, newValues) ==
    \/ audit_logs' = <<AuditRow(st, action, tableName, oldValues, newValues)>>
    \/ audit_logs' = audit_logs

\* INSERT INTO audit_logs ... inside try/catch: a rejected insert is only
\* printed
logDataOperation(st, action, tableName, oldValues, newValues) ==
    \/ audit_logs' = Append(audit_logs, AuditRow(st, action, tableName, oldValues, newValues))
    \/ audit_logs' = audit_logs

\* --------------------------------------------------------------- insertData
\* encryptSensitiveFields, then INSERT INTO data_storage ... RETURNING id
insertWrite(p, tableName, data, userId, how) ==
    /\ CanStart(p)
    /\ calls' = calls + 1
    /\ LET st == Begin(p, "insert", 0, userId, tableName, data)
           enc == encryptSensitiveFields(data, how)
       IN  \/ /\ ~EncryptThrows(data, how)
              /\ data_storage' =
                    [i \in DOMAIN data_storage \cup {nextId} |->
                        IF i = nextId
                        THEN [table_name |-> tableName, data |-> enc.data,
                              encrypted_fields |-> enc.encryptedFields,
                              user_id |-> userId,
                              created_at |-> clock + 1, updated_at |-> clock + 1]
                        ELSE data_storage[i]]
              /\ nextId' = nextId + 1
              /\ clock' = clock + 1
              /\ mutated' = mutated \cup {st.call}
              /\ proc' = [proc EXCEPT ![p] = [st EXCEPT !.pc = "insert_log", !.id = nextId,
                                                        !.cleanData = enc.data, !.affected = 1]]
           \/ /\ proc' = [proc EXCEPT ![p] = Caught(st, "Failed to insert data")]
              /\ UNCHANGED <<data_storage, nextId, clock, mutated>>
    /\ UNCHANGED <<audit_logs, submitted, catVars, extVars>>

\* logDataOperation(userId, 'INSERT', tableName, id, null, cleanData); return
insertLog(p) ==
    /\ proc[p].pc = "insert_log"
    /\ logDataOperation(proc[p], "INSERT", proc[p].tableName, None, Some(proc[p].cleanData))
    /\ proc' = [proc EXCEPT ![p] = Finish(@, Ok("Data inserted successfully", @.id))]
    /\ submitted' = [i \in DOMAIN submitted \cup {proc[p].id} |->
                        IF i = proc[p].id THEN proc[p].data ELSE submitted[i]]
    /\ UNCHANGED <<data_storage, nextId, clock, calls, mutated, catVars, extVars>>

\* --------------------------------------------------------------- updateData
\* SELECT data, encrypted_fields ... WHERE id = $1 AND user_id = $2
updateSelect(p, id, data, userId) ==
    /\ CanStart(p)
    /\ calls' = calls + 1
    /\ LET st == [Begin(p, "update", id, userId, "", data) EXCEPT !.foreign = Foreign(id, userId)]
       IN  \/ /\ MatchRows(id, userId) = {}
              /\ proc' = [proc EXCEPT ![p] = Finish(st, Fail(NotFoundMsg))]
           \/ /\ MatchRows(id, userId) # {}
              /\ proc' = [proc EXCEPT ![p] = [st EXCEPT !.pc = "update_write",
                                                        !.existing = Some(data_storage[id])]]
           \/ proc' = [proc EXCEPT ![p] = Caught(st, "Failed to update data")]
    /\ UNCHANGED <<data_storage, audit_logs, nextId, clock, mutated, submitted, catVars, extVars>>

\* the row count of the UPDATE not looked at
UpdateWrittenUnchecked(n) == TRUE

\* if (result.rows.length === 0) return 'Failed to update record'
UpdateWritten(n) == n # 0

\* encryptSensitiveFields, merge, UPDATE ... WHERE id = $3 AND user_id = $4
updateWrite(p, how) ==
    /\ proc[p].pc = "update_write"
    /\ LET st == proc[p]
           enc == encryptSensitiveFields(st.data, how)
           existingEncryptedFields == st.existing[1].encrypted_fields
           mergedEncryptedFields == Spread(existingEncryptedFields, enc.encryptedFields)
           hit == MatchRows(st.id, st.userId)
       IN  \/ /\ ~EncryptThrows(st.data, how)
              /\ data_storage' =
                    [i \in DOMAIN data_storage |->
                        IF i \in hit
                        THEN [data_storage[i] EXCEPT !.data = enc.data,
                                                     !.encrypted_fields = mergedEncryptedFields,
                                                     !.updated_at = clock + 1]
                        ELSE data_storage[i]]
              /\ clock' = IF hit # {} THEN clock + 1 ELSE clock
              /\ mutated' = IF hit # {} THEN mutated \cup {st.call} ELSE mutated
              /\ proc' = [proc EXCEPT ![p] =
                    IF UpdateWritten(Cardinality(hit))
                    THEN [st EXCEPT !.pc = "update_log", !.cleanData = enc.data,
                                    !.affected = Cardinality(hit),
                                    !.prior = IF hit # {}
                                              THEN Some(data_storage[st.id].data) ELSE None]
                    ELSE Finish(st, Fail("Failed to update record"))]
           \/ /\ proc' = [proc EXCEPT ![p] = Caught(st, "Failed to update data")]
              /\ UNCHANGED <<data_storage, clock, mutated>>
    /\ UNCHANGED <<audit_logs, nextId, calls, submitted, catVars, extVars>>

\* logDataOperation(userId, 'UPDATE', 'data_storage', id, existingData, cleanData)
updateLog(p) ==
    /\ proc[p].pc = "update_log"
    /\ logDataOperation(proc[p], "UPDATE", "data_storage",
                        Some(proc[p].existing[1].data), Some(proc[p].cleanData))
    /\ proc' = [proc EXCEPT ![p] = Finish(@, Ok("Data updated successfully", @.id))]
    /\ UNCHANGED <<data_storage, nextId, clock, calls, mutated, submitted, catVars, extVars>>

\* --------------------------------------------------------------- deleteData
\* SELECT data, table_name ... WHERE id = $1 AND user_id = $2
deleteSelect(p, id, userId) ==
    /\ CanStart(p)
    /\ calls' = calls + 1
    /\ LET st == [Begin(p, "delete", id, userId, "", EmptyMap) EXCEPT !.foreign = Foreign(id, userId)]
       IN  \/ /\ MatchRows(id, userId) = {}
              /\ proc' = [proc EXCEPT ![p] = Finish(st, Fail(NotFoundMsg))]
           \/ /\ MatchRows(id, userId) # {}
              /\ proc' = [proc EXCEPT ![p] = [st EXCEPT !.pc = "delete_write",
                                                        !.existing = Some(data_storage[id]),
                                                        !.tableName = data_storage[id].table_name]]
           \/ proc' = [proc EXCEPT ![p] = Caught(st, "Failed to delete data")]
    /\ UNCHANGED <<data_storage, audit_logs, nextId, clock, mutated, submitted, catVars, extVars>>

\* if (result.rowCount === 0) return 'Failed to delete record'
DeleteWritten(n) == n # 0

\* DELETE FROM data_storage WHERE id = $1 AND user_id = $2
deleteWrite(p) ==
    /\ proc[p].pc = "delete_write"
    /\ LET st == proc[p]
           hit == MatchRows(st.id, st.userId)
       IN  \/ /\ data_storage' = [i \in DOMAIN data_storage \ hit |-> data_storage[i]]
              /\ mutated' = IF hit # {} THEN mutated \cup {st.call} ELSE mutated
              /\ proc' = [proc EXCEPT ![p] =
                    IF DeleteWritten(Cardinality(hit))
                    THEN [st EXCEPT !.pc = "delete_log", !.affected = Cardinality(hit)]
                    ELSE Finish(st, Fail("Failed to delete record"))]
           \/ /\ proc' = [proc EXCEPT ![p] = Caught(st, "Failed to delete data")]
              /\ UNCHANGED <<data_storage, mutated>>
    /\ UNCHANGED <<audit_logs, nextId, clock, calls, submitted, catVars, extVars>>

\* logDataOperation(userId, 'DELETE', tableName, id, existingData, null)
deleteLog(p) ==
    /\ proc[p].pc = "delete_log"
    /\ logDataOperation(proc[p], "DELETE", proc[p].tableName,
                        Some(proc[p].existing[1].data), None)
    /\ proc' = [proc EXCEPT ![p] = Finish(@, Ok("Data deleted successfully", @.id))]
    /\ UNCHANGED <<data_storage, nextId, clock, calls, mutated, submitted, catVars, extVars>>

\* ------------------------------------------------------------------ getData
RECURSIVE Descending(_)
\* ORDER BY created_at DESC: ids are handed out in creation order
Descending(ids) ==
    IF ids = {} THEN <<>>
    ELSE LET m == CHOOSE i \in ids : \A j \in ids : j <= i
         IN  <<m>> \o Descending(ids \ {m})

Take(seq, n) == SubSeq(seq, 1, IF Len(seq) < n THEN Len(seq) ELSE n)

\* the owner condition never added
ScopeAnyOwner(tableName, userId) ==
    {i \in DOMAIN data_storage : data_storage[i].table_name = tableName}

\* WHERE table_name = $1 [AND user_id = $2]; `if (userId)` skips the owner
\* condition for a falsy userId
Scope(tableName, userId) ==
    {i \in DOMAIN data_storage :
        /\ data_storage[i].table_name = tableName
        /\ (userId # NoUser => data_storage[i].user_id = userId)}

DecryptedRow(i) ==
    [id |-> i, tableName |-> data_storage[i].table_name,
     data |-> decryptSensitiveFields(data_storage[i].data, data_storage[i].encrypted_fields),
     userId |-> data_storage[i].user_id,
     createdAt |-> data_storage[i].created_at, updatedAt |-> data_storage[i].updated_at]

\* SELECT ... ORDER BY created_at DESC LIMIT .. OFFSET 0, rows decrypted
getSelect(p, tableName, userId, limit) ==
    /\ CanStart(p)
    /\ calls' = calls + 1
    /\ LET st == [Begin(p, "get", 0, userId, tableName, EmptyMap) EXCEPT !.limit = limit]
           page == Take(Descending(Scope(tableName, userId)), limit)
       IN  \/ proc' = [proc EXCEPT ![p] =
                    [st EXCEPT !.pc = "get_count",
                               !.result = [NoResult EXCEPT
                                   !.rows = [k \in DOMAIN page |-> DecryptedRow(page[k])]]]]
           \/ proc' = [proc EXCEPT ![p] = Caught(st, "Failed to get data")]
    /\ UNCHANGED <<data_storage, audit_logs, nextId, clock, mutated, submitted, catVars, extVars>>

\* SELECT COUNT(*) FROM data_storage WHERE table_name = $1 [AND user_id = $2]
getCount(p) ==
    /\ proc[p].pc = "get_count"
    /\ LET st == proc[p]
       IN  \/ proc' = [proc EXCEPT ![p] =
                    Finish(st, [st.result EXCEPT !.success = TRUE,
                                    !.total = Cardinality(Scope(st.tableName, st.userId))])]
           \/ proc' = [proc EXCEPT ![p] = Caught(st, "Failed to get data")]
    /\ UNCHANGED <<data_storage, audit_logs, nextId, clock, calls, mutated, submitted, catVars, extVars>>

\* ========================================================= databaseService
MaxFailing == 1
MaxFixRuns == 2

\* the queries of the database service that the store may reject
FailOps == {"probe", "information_schema", "create_table", "pg_indexes", "create_index",
            "integrity", "delete_orphans", "permissions", "pg_stat_activity",
            "pg_stat_statements"}

Rejects(q) == q \in failing

requiredTables == <<"users", "connection_strings", "data_storage", "audit_logs">>

requiredIndexes ==
    << [name |-> "idx_users_username", table |-> "users"],
       [name |-> "idx_users_email", table |-> "users"],
       [name |-> "idx_connection_strings_user_id", table |-> "connection_strings"],
       [name |-> "idx_data_storage_table_name", table |-> "data_storage"] >>

Range(seq) == {seq[k] : k \in DOMAIN seq}

PermissionProbes == {"can_select_users", "can_insert_users", "can_update_users",
                     "can_delete_users", "can_create_tables", "can_connect"}

\* --------------------------------------------------------------- sub-checks
testConnection ==
    IF Rejects("probe")
    THEN [success |-> FALSE, message |-> "Connection failed", hasData |-> FALSE]
    ELSE [success |-> TRUE, message |-> "Connection successful", hasData |-> TRUE]

validateSchema(tbls) ==
    IF Rejects("information_schema")
    THEN [success |-> FALSE, message |-> "Schema validation failed", hasData |-> FALSE,
          missingTables |-> <<>>]
    ELSE LET missingTables == SelectSeq(requiredTables, LAMBDA t : t \notin tbls)
         IN  [success |-> missingTables = <<>>,
              message |-> IF missingTables = <<>> THEN "Schema is valid"
                          ELSE "Missing tables detected",
              hasData |-> TRUE, missingTables |-> missingTables]

\* has_table_privilege('users', ...) needs the users relation
checkPermissions(tbls) ==
    IF Rejects("permissions") \/ "users" \notin tbls
    THEN [success |-> FALSE, message |-> "Permission check failed", hasData |-> FALSE]
    ELSE [success |-> grants = PermissionProbes,
          message |-> IF grants = PermissionProbes THEN "All permissions granted"
                      ELSE "Some permissions missing",
          hasData |-> TRUE]

\* a rejected pg_stat_statements query is replaced by no rows
checkPerformance ==
    IF Rejects("pg_stat_activity")
    THEN [success |-> FALSE, message |-> "Performance check failed", hasData |-> FALSE]
    ELSE [success |-> TRUE, message |-> "Performance check completed", hasData |-> TRUE]

\* WHERE user_id IS NOT NULL AND u.id IS NULL
Orphaned(userId, usrs) == userId # NoUser /\ userId \notin usrs

OrphanedCS(cs, usrs) == {i \in DOMAIN cs : Orphaned(cs[i], usrs)}
OrphanedDS(ds, usrs) == {i \in DOMAIN ds : Orphaned(ds[i].user_id, usrs)}

checkIntegrity(tbls, usrs, cs, ds) ==
    IF Rejects("integrity") \/ ~({"users", "connection_strings", "data_storage"} \subseteq tbls)
    THEN [success |-> FALSE, message |-> "Integrity check failed", hasData |-> FALSE,
          totalOrphaned |-> 0]
    ELSE LET totalOrphaned == Cardinality(OrphanedCS(cs, usrs)) + Cardinality(OrphanedDS(ds, usrs))
         IN  [success |-> totalOrphaned = 0,
              message |-> IF totalOrphaned = 0 THEN "No integrity issues found"
                          ELSE "Orphaned records detected",
              hasData |-> TRUE, totalOrphaned |-> totalOrphaned]

\* ----------------------------------------------------------- runDiagnostics
SubChecks == {"connection", "schema", "permissions", "performance", "integrity"}

\* only the probe decides the health
OverallHealthOfProbe(diagnostics) ==
    IF diagnostics.connection.success THEN "healthy" ELSE "issues_detected"

\* Object.values(diagnostics).every(d => d.success)
OverallHealth(diagnostics) ==
    IF \A c \in DOMAIN diagnostics : diagnostics[c].success THEN "healthy"
    ELSE "issues_detected"

Brief(r) == [success |-> r.success, message |-> r.message]

\* an integrity check that removes the orphans it counts
runDiagnosticsPruning ==
    /\ LET diagnostics ==
               [connection |-> Brief(testConnection),
                schema |-> Brief(validateSchema(tables)),
                permissions |-> Brief(checkPermissions(tables)),
                performance |-> Brief(checkPerformance),
                integrity |-> Brief(checkIntegrity(tables, users, connection_strings,
                                                   data_storage))]
       IN  diag' = [called |-> TRUE, success |-> TRUE,
                    health |-> OverallHealth(diagnostics),
                    diagnostics |-> diagnostics,
                    ran |-> <<"schema", "permissions", "performance", "integrity">>]
    /\ data_storage' = [i \in DOMAIN data_storage \ OrphanedDS(data_storage, users) |->
                            data_storage[i]]
    /\ UNCHANGED <<extVars, audit_logs, nextId, clock, proc, calls, mutated, submitted, tables, indexes,
                   users, connection_strings, grants, failing, fix, repair>>

runDiagnostics ==
    /\ LET diagnostics ==
               [connection |-> Brief(testConnection),
                schema |-> Brief(validateSchema(tables)),
                permissions |-> Brief(checkPermissions(tables)),
                performance |-> Brief(checkPerformance),
                integrity |-> Brief(checkIntegrity(tables, users, connection_strings,
                                                   data_storage))]
       IN  diag' = [called |-> TRUE, success |-> TRUE,
                    health |-> OverallHealth(diagnostics),
                    diagnostics |-> diagnostics,
                    ran |-> <<"schema", "permissions", "performance", "integrity">>]
    /\ UNCHANGED <<storeVars, extVars, tables, indexes, users, connection_strings, grants, failing, fix,
                   repair>>

\* ------------------------------------------------------------ autoFixSchema
Fixed(what, name) == [what |-> what, name |-> name]

IsFailure(f) == f.what \in {"Failed to create table", "Failed to create index",
                            "Failed to clean orphaned records"}

\* CREATE TABLE ...: every table but users REFERENCES users(id)
TableCreated(t, tbls) == ~Rejects("create_table") /\ (t = "users" \/ "users" \in tbls)

RECURSIVE CreateTables(_, _)
CreateTables(todo, w) ==
    IF todo = <<>> THEN w
    ELSE LET t == Head(todo)
         IN  CreateTables(Tail(todo),
                IF TableCreated(t, w.tables)
                THEN [w EXCEPT !.tables = @ \cup {t},
                               !.fixes = Append(@, Fixed("Created missing table", t))]
                ELSE [w EXCEPT !.fixes = Append(@, Fixed("Failed to create table", t))])

\* reading .data of a sub-check result that has none throws a TypeError,
\* which the outer catch of autoFixSchema turns into 'Auto-fix failed'
Thrown(w) == [w EXCEPT !.thrown = TRUE]

FixTables(w0) ==
    LET w == [w0 EXCEPT !.ran = Append(@, "tables")]
        schemaValidation == validateSchema(w.tables)
    IN  IF schemaValidation.success THEN w
        ELSE IF ~schemaValidation.hasData THEN Thrown(w)
        ELSE CreateTables(schemaValidation.missingTables, w)

\* every required index listed, whether it exists or not
checkMissingIndexesAll(existing) == requiredIndexes

checkMissingIndexes(existing) ==
    SelectSeq(requiredIndexes, LAMBDA ix : ix.name \notin existing)

\* CREATE INDEX IF NOT EXISTS ... ON table(...)
IndexCreated(ix, tbls) == ~Rejects("create_index") /\ ix.table \in tbls

RECURSIVE CreateIndexes(_, _)
CreateIndexes(todo, w) ==
    IF todo = <<>> THEN w
    ELSE LET ix == Head(todo)
         IN  CreateIndexes(Tail(todo),
                IF IndexCreated(ix, w.tables)
                THEN [w EXCEPT !.indexes = @ \cup {ix.name},
                               !.fixes = Append(@, Fixed("Created missing index", ix.name))]
                ELSE [w EXCEPT !.fixes = Append(@, Fixed("Failed to create index", ix.name))])

FixIndexes(w0) ==
    IF w0.thrown THEN w0
    ELSE LET w == [w0 EXCEPT !.ran = Append(@, "indexes")]
         IN  IF Rejects("pg_indexes") THEN Thrown(w)
             ELSE CreateIndexes(checkMissingIndexes(w.indexes), w)

\* a clean-up that forgets connection_strings
FixOrphansOfDataOnly(w0) ==
    IF w0.thrown THEN w0
    ELSE LET w == [w0 EXCEPT !.ran = Append(@, "orphans")]
             integrityCheck == checkIntegrity(w.tables, users, w.cs, w.ds)
         IN  IF integrityCheck.success THEN w
             ELSE IF ~integrityCheck.hasData THEN Thrown(w)
             ELSE IF integrityCheck.totalOrphaned = 0 THEN w
             ELSE IF Rejects("delete_orphans")
             THEN [w EXCEPT !.fixes = Append(@, Fixed("Failed to clean orphaned records", ""))]
             ELSE [w EXCEPT
                     !.ds = [i \in DOMAIN w.ds \ OrphanedDS(w.ds, users) |-> w.ds[i]],
                     !.fixes = Append(@, Fixed("Cleaned up orphaned records", ""))]

FixOrphans(w0) ==
    IF w0.thrown THEN w0
    ELSE LET w == [w0 EXCEPT !.ran = Append(@, "orphans")]
             integrityCheck == checkIntegrity(w.tables, users, w.cs, w.ds)
         IN  IF integrityCheck.success THEN w
             ELSE IF ~integrityCheck.hasData THEN Thrown(w)
             ELSE IF integrityCheck.totalOrphaned = 0 THEN w
             ELSE IF Rejects("delete_orphans")
             THEN [w EXCEPT !.fixes = Append(@, Fixed("Failed to clean orphaned records", ""))]
             ELSE [w EXCEPT
                     !.cs = [i \in DOMAIN w.cs \ OrphanedCS(w.cs, users) |-> w.cs[i]],
                     !.ds = [i \in DOMAIN w.ds \ OrphanedDS(w.ds, users) |-> w.ds[i]],
                     !.fixes = Append(@, Fixed("Cleaned up orphaned records", ""))]

autoFixSchema ==
    /\ Len(fix) < MaxFixRuns
    /\ LET w0 == [tables |-> tables, indexes |-> indexes, cs |-> connection_strings,
                  ds |-> data_storage, fixes |-> <<>>, ran |-> <<>>, thrown |-> FALSE]
           w == FixOrphans(FixIndexes(FixTables(w0)))
       IN  /\ tables' = w.tables
           /\ indexes' = w.indexes
           /\ connection_strings' = w.cs
           /\ data_storage' = w.ds
           /\ fix' = Append(fix,
                  [success |-> ~w.thrown,
                   message |-> IF w.thrown THEN "Auto-fix failed" ELSE "Auto-fix completed",
                   fixes |-> IF w.thrown THEN <<>> ELSE w.fixes,
                   collected |-> w.fixes, ran |-> w.ran])
    /\ UNCHANGED <<extVars, audit_logs, nextId, clock, proc, calls, mutated, submitted,
                   users, grants, failing, diag, repair>>

\* ------------------------------------------------------------------- drift
\* somebody else drops an index
dropIndex(name) ==
    /\ name \in indexes
    /\ indexes' = indexes \ {name}
    /\ fix' = <<>>
    /\ UNCHANGED <<storeVars, extVars, tables, users, connection_strings, grants, failing, diag, repair>>

\* somebody else deletes a principal, leaving its rows behind
deleteUser(u) ==
    /\ u \in users
    /\ users' = users \ {u}
    /\ fix' = <<>>
    /\ UNCHANGED <<storeVars, extVars, tables, indexes, connection_strings, grants, failing, diag, repair>>

\* ------------------------------------------------------------ specification
NoDiag == [called |-> FALSE, success |-> FALSE, health |-> "",
           diagnostics |-> [c \in SubChecks |-> [success |-> FALSE, message |-> ""]],
           ran |-> <<>>]

NoRepair == [called |-> FALSE, success |-> FALSE, message |-> "", repairs |-> {}]

\* ------------------------------------------- the other services, at rest
\* NULL of users.locked_until
NoLock == -1

\* login_attempts INTEGER DEFAULT 0, locked_until NULL, is_active DEFAULT true
NewAccount == [login_attempts |-> 0, locked_until |-> NoLock, is_active |-> TRUE]

NoLogin == [called |-> FALSE, username |-> "", correct |-> FALSE, success |-> FALSE,
            message |-> "", at |-> 0, streak |-> 0, fifthAt |-> NoLock,
            lockedBefore |-> FALSE, setLock |-> FALSE, sinceExpiry |-> 0]

NoTrail == [logins |-> 0, streak |-> 0, fifthAt |-> NoLock, lockedBefore |-> FALSE,
            sinceExpiry |-> 0]

\* test_strings before the first CREATE TABLE IF NOT EXISTS
NoStrings == [created |-> FALSE, rows |-> <<>>, serial |-> 1]

NoHttp == [requests |-> 0, kind |-> "", id |-> 0, status |-> 0, message |-> "", data |-> <<>>]

ExtIdle ==
    /\ account = NewAccount
    /\ now = 0
    /\ variant = "pg"
    /\ login = NoLogin
    /\ trail = NoTrail
    /\ dbUp = TRUE
    /\ test_strings = NoStrings
    /\ inMemoryStorage = <<>>
    /\ memNextId = 1
    /\ http = NoHttp

\* a row written by an earlier run of the service, with its audit row
OldRow == [table_name |-> "inventory", data |-> [name |-> S("a")],
           encrypted_fields |-> [password |-> Ct("s0")], user_id |-> 1,
           created_at |-> 1, updated_at |-> 1]

OldAudit == [user_id |-> 1, action |-> "INSERT", table_name |-> "inventory",
             record_id |-> 1, old_values |-> None,
             new_values |-> Some([name |-> S("a")]), call |-> 0, logical |-> "inventory"]

Init ==
    /\ \/ /\ data_storage = [i \in {} |-> OldRow]
          /\ audit_logs = <<>>
          /\ nextId = 1
          /\ clock = 0
       \/ /\ data_storage = [i \in {1} |-> OldRow]
          /\ audit_logs = <<OldAudit>>
          /\ nextId = 2
          /\ clock = 1
    /\ proc = [p \in Procs |-> Idle]
    /\ calls = 0
    /\ mutated = {}
    /\ submitted = [i \in {} |-> EmptyMap]
    /\ tables = Range(requiredTables)
    /\ indexes = {ix.name : ix \in Range(requiredIndexes)}
    /\ users = Users
    /\ connection_strings = [i \in {} |-> NoUser]
    /\ grants = PermissionProbes
    /\ failing = {}
    /\ fix = <<>>
    /\ diag = NoDiag
    /\ repair = NoRepair
    /\ ExtIdle

\* ids a caller may name: every id handed out so far, and the next one
Ids == 1..nextId

\* Two callers race on the store.  What a racing call writes does not matter
\* to how the calls interleave, so the payloads are few.
RacePayloads == { [name |-> S("b"), password |-> S("s1")], [token |-> S("t1")] }

Next ==
    \/ \E p \in Procs, t \in LogicalTables, d \in RacePayloads, u \in Users, h \in NonStringOutcomes :
          insertWrite(p, t, d, u, h)
    \/ \E p \in Procs : insertLog(p)
    \/ \E p \in Procs, i \in Ids, d \in RacePayloads, u \in Users : updateSelect(p, i, d, u)
    \/ \E p \in Procs, h \in NonStringOutcomes : updateWrite(p, h)
    \/ \E p \in Procs : updateLog(p)
    \/ \E p \in Procs, i \in Ids, u \in Users : deleteSelect(p, i, u)
    \/ \E p \in Procs : deleteWrite(p)
    \/ \E p \in Procs : deleteLog(p)

Spec == Init /\ [][Next]_vars

\* One caller, one call after the other, over every kind of payload.
SeqCallers == {1}

NextSeq ==
    \/ \E p \in SeqCallers, t \in LogicalTables, d \in Payloads, u \in Users,
          h \in NonStringOutcomes : insertWrite(p, t, d, u, h)
    \/ \E p \in SeqCallers : insertLog(p)
    \/ \E p \in SeqCallers, i \in Ids, d \in Payloads, u \in Users : updateSelect(p, i, d, u)
    \/ \E p \in SeqCallers, h \in NonStringOutcomes : updateWrite(p, h)
    \/ \E p \in SeqCallers : updateLog(p)
    \/ \E p \in SeqCallers, i \in Ids, u \in Users : deleteSelect(p, i, u)
    \/ \E p \in SeqCallers : deleteWrite(p)
    \/ \E p \in SeqCallers : deleteLog(p)
    \/ \E p \in SeqCallers, t \in LogicalTables, u \in Users \cup {NoUser}, l \in Limits :
          getSelect(p, t, u, l)
    \/ \E p \in SeqCallers : getCount(p)

SpecSeq == Init /\ [][NextSeq]_vars


\* The database service over every catalogue it may meet: tables, indexes
\* and principals missing, rows left without their principal, and store
\* operations that keep rejecting.
OrphanRow == [OldRow EXCEPT !.user_id = 2]
NullRow == [OldRow EXCEPT !.user_id = NoUser]

InitFix ==
    /\ tables \in SUBSET Range(requiredTables)
    /\ indexes \in SUBSET {ix.name : ix \in {x \in Range(requiredIndexes) : x.table \in tables}}
    /\ users \in (IF "users" \in tables THEN {{}, {1}} ELSE {{}})
    /\ data_storage \in (IF "data_storage" \in tables
                         THEN {[i \in {} |-> OldRow], [i \in {1} |-> OldRow],
                               [i \in {1, 2} |-> IF i = 1 THEN NullRow ELSE OrphanRow]}
                         ELSE {[i \in {} |-> OldRow]})
    /\ connection_strings \in (IF "connection_strings" \in tables
                               THEN {[i \in {} |-> NoUser], [i \in {1} |-> 1]}
                               ELSE {[i \in {} |-> NoUser]})
    /\ grants \in {PermissionProbes, PermissionProbes \ {"can_create_tables"}}
    /\ failing \in {f \in SUBSET FailOps : Cardinality(f) <= MaxFailing}
    /\ audit_logs = <<>>
    /\ nextId = 3
    /\ clock = 1
    /\ proc = [p \in Procs |-> Idle]
    /\ calls = 0
    /\ mutated = {}
    /\ submitted = [i \in {} |-> EmptyMap]
    /\ fix = <<>>
    /\ diag = NoDiag
    /\ repair = NoRepair
    /\ ExtIdle

NextFix ==
    \/ autoFixSchema
    \/ runDiagnostics
    \/ \E ix \in Range(requiredIndexes) : dropIndex(ix.name)
    \/ \E u \in Users : deleteUser(u)

SpecFix == InitFix /\ [][NextFix]_vars

\* ============================================================ request bodies
\* The characters of the strings the model uses.
Chars(s) ==
    CASE s = "" -> <<>>
      [] s = "a" -> <<"a">>
      [] s = "b" -> <<"b">>
      [] s = "A" -> <<"A">>
      [] s = "ab" -> <<"a", "b">>
      [] s = "Ab" -> <<"A", "b">>
      [] s = "s0" -> <<"s", "0">>
      [] s = "s1" -> <<"s", "1">>
      [] s = "t1" -> <<"t", "1">>
      [] s = "42" -> <<"4", "2">>
      [] s = "_" -> <<"_">>
      [] OTHER -> <<s>>

\* String(i - 1) for the i-th character of a string
Digits == <<"0", "1", "2">>

\* { ...data } of a string: one property per character, keyed by its index
SpreadOfText(s) ==
    [k \in {Digits[i] : i \in DOMAIN Chars(s)} |->
        S(Chars(s)[CHOOSE i \in DOMAIN Chars(s) : Digits[i] = k])]

TextBodies == {"ab"}

\* req.body.data: an object, or a string
Bodies ==
    [shape : {"object"}, map : Payloads, text : {""}]
        \cup [shape : {"string"}, map : {EmptyMap}, text : TextBodies]

\* what encryptSensitiveFields makes of its argument: const encrypted = { ...data }
ObjectOf(body) == IF body.shape = "object" THEN body.map ELSE SpreadOfText(body.text)

\* the validator let everything through
IsObjectAny(body) == TRUE

\* body('data').isObject()
IsObject(body) == body.shape = "object"

\* POST /api/data/:tableName: validation, then insertData(tableName, data, req.user.id)
postData(p, tableName, body, userId, how) ==
    \/ /\ IsObject(body)
       /\ insertWrite(p, tableName, ObjectOf(body), userId, how)
    \/ /\ ~IsObject(body)
       /\ CanStart(p)
       /\ calls' = calls + 1
       /\ proc' = [proc EXCEPT ![p] =
              Finish(Begin(p, "insert", 0, userId, tableName, ObjectOf(body)),
                     Fail("Validation failed"))]
       /\ UNCHANGED <<data_storage, audit_logs, nextId, clock, mutated, submitted, catVars, extVars>>

NextRoute ==
    \/ \E p \in SeqCallers, t \in LogicalTables, b \in Bodies, u \in Users,
          h \in NonStringOutcomes : postData(p, t, b, u, h)
    \/ \E p \in SeqCallers : insertLog(p)

SpecRoute == Init /\ [][NextRoute]_vars

\* =============================================================== the reads
\* ILIKE folds case
Lower(c) == CASE c = "A" -> "a" [] c = "B" -> "b" [] OTHER -> c

RECURSIVE Like(_, _)
\* text ILIKE pattern: % stands for any run of characters, _ for any one
Like(pattern, text) ==
    IF pattern = <<>> THEN text = <<>>
    ELSE IF Head(pattern) = "%"
         THEN Like(Tail(pattern), text) \/ (text # <<>> /\ Like(pattern, Tail(text)))
         ELSE /\ text # <<>>
              /\ (Head(pattern) = "_" \/ Lower(Head(pattern)) = Lower(Head(text)))
              /\ Like(Tail(pattern), Tail(text))

\* AND data->>'key' ILIKE '%value%', for every entry of searchCriteria; a
\* key that data does not have gives NULL, which matches nothing
MatchesCriteria(i, criteria) ==
    \A key \in Keys(criteria) :
        /\ key \in Keys(data_storage[i].data)
        /\ Like(<<"%">> \o Chars(criteria[key].v) \o <<"%">>,
                Chars(data_storage[i].data[key].v))

\* searchData: one SELECT, the rows decrypted
searchData(p, tableName, searchCriteria, userId, limit) ==
    /\ CanStart(p)
    /\ calls' = calls + 1
    /\ LET st == [Begin(p, "search", 0, userId, tableName, searchCriteria) EXCEPT !.limit = limit]
           hit == {i \in Scope(tableName, userId) : MatchesCriteria(i, searchCriteria)}
           page == Take(Descending(hit), limit)
       IN  \/ proc' = [proc EXCEPT ![p] =
                    Finish(st, [NoResult EXCEPT !.success = TRUE,
                                    !.rows = [k \in DOMAIN page |-> DecryptedRow(page[k])],
                                    !.total = Len(page)])]
           \/ proc' = [proc EXCEPT ![p] = Caught(st, "Failed to search data")]
    /\ UNCHANGED <<data_storage, audit_logs, nextId, clock, mutated, submitted, catVars, extVars>>

ExportLimit == 1000

\* exportData (format json): one SELECT ... LIMIT, the rows decrypted
exportData(p, tableName, userId) ==
    /\ CanStart(p)
    /\ calls' = calls + 1
    /\ LET st == [Begin(p, "export", 0, userId, tableName, EmptyMap) EXCEPT !.limit = ExportLimit]
           page == Take(Descending(Scope(tableName, userId)), ExportLimit)
       IN  \/ proc' = [proc EXCEPT ![p] =
                    Finish(st, [NoResult EXCEPT !.success = TRUE,
                                    !.message = "Data exported successfully",
                                    !.rows = [k \in DOMAIN page |-> DecryptedRow(page[k])],
                                    !.total = Len(page)])]
           \/ proc' = [proc EXCEPT ![p] = Caught(st, "Failed to export data")]
    /\ UNCHANGED <<data_storage, audit_logs, nextId, clock, mutated, submitted, catVars, extVars>>

\* searchCriteria: field -> substring
Criteria ==
    { EmptyMap,
      [name |-> S("a")],
      [name |-> S("A")],
      [name |-> S("_")],
      [name |-> S("s0")],
      [password |-> S("s0")],
      [name |-> S("a"), password |-> S("s0")] }

MixedCaseRow == [OldRow EXCEPT !.data = [name |-> S("Ab")], !.encrypted_fields = EmptyMap,
                               !.user_id = 2, !.created_at = 2, !.updated_at = 2]

\* a row one of whose two ciphertexts no longer decrypts
GarbledRow(how) ==
    [OldRow EXCEPT !.data = [name |-> S("b")],
                   !.encrypted_fields = [password |-> Ct("s1"), token |-> Garbled(how)],
                   !.created_at = 2, !.updated_at = 2]

\* The store as earlier runs of the service, possibly under another
\* ENCRYPTION_KEY, left it.
ReadStores ==
    { [i \in {} |-> OldRow],
      [i \in {1} |-> OldRow],
      [i \in {1, 2} |-> IF i = 1 THEN OldRow ELSE MixedCaseRow] }
        \cup { [i \in {1, 2} |-> IF i = 1 THEN OldRow ELSE GarbledRow(how)] :
                 how \in GarbledOutcomes }
        \cup { [i \in {1, 2, 3} |-> IF i = 1 THEN OldRow
                                    ELSE IF i = 2 THEN MixedCaseRow
                                    ELSE [OldRow EXCEPT !.created_at = 3, !.updated_at = 3]] }

InitRead ==
    /\ data_storage \in ReadStores
    /\ audit_logs = <<>>
    /\ nextId = 4
    /\ clock = 3
    /\ proc = [p \in Procs |-> Idle]
    /\ calls = 0
    /\ mutated = {}
    /\ submitted = [i \in {} |-> EmptyMap]
    /\ tables = Range(requiredTables)
    /\ indexes = {ix.name : ix \in Range(requiredIndexes)}
    /\ users = Users
    /\ connection_strings = [i \in {} |-> NoUser]
    /\ grants = PermissionProbes
    /\ failing = {}
    /\ fix = <<>>
    /\ diag = NoDiag
    /\ repair = NoRepair
    /\ ExtIdle

NextRead ==
    \/ \E p \in SeqCallers, t \in LogicalTables, c \in Criteria, u \in Users \cup {NoUser},
          l \in Limits : searchData(p, t, c, u, l)
    \/ \E p \in SeqCallers, t \in LogicalTables, u \in Users \cup {NoUser} : exportData(p, t, u)
    \/ \E p \in SeqCallers, t \in LogicalTables, u \in Users \cup {NoUser}, l \in Limits :
          getSelect(p, t, u, l)
    \/ \E p \in SeqCallers : getCount(p)

SpecRead == InitRead /\ [][NextRead]_vars

\* ============================================================== getAuditLogs
\* a filter that is not given (null)
NoFilter == ""

\* const { action = null, tableName = null } = options
Opt(options, key) == IF key \in Keys(options) THEN options[key].v ELSE NoFilter

Reverse(seq) == [k \in 1..Len(seq) |-> seq[Len(seq) + 1 - k]]

\* WHERE 1=1 [AND al.user_id = ..] [AND al.action = ..] [AND al.table_name = ..]
AuditMatches(r, userId, options) ==
    /\ (userId # NoUser => r.user_id = userId)
    /\ (Opt(options, "action") # NoFilter => r.action = Opt(options, "action"))
    /\ (Opt(options, "tableName") # NoFilter => r.table_name = Opt(options, "tableName"))

\* getAuditLogs: one SELECT ... ORDER BY al.created_at DESC LIMIT
getAuditLogs(p, userId, options, limit) ==
    /\ CanStart(p)
    /\ calls' = calls + 1
    /\ LET st == [Begin(p, "audit", 0, userId, "", options) EXCEPT !.limit = limit]
           hits == SelectSeq(audit_logs, LAMBDA r : AuditMatches(r, userId, options))
           page == Take(Reverse(hits), limit)
       IN  \/ proc' = [proc EXCEPT ![p] =
                    Finish(st, [NoResult EXCEPT !.success = TRUE, !.rows = page,
                                                !.total = Len(page)])]
           \/ proc' = [proc EXCEPT ![p] = Caught(st, "Failed to get audit logs")]
    /\ UNCHANGED <<data_storage, audit_logs, nextId, clock, mutated, submitted, catVars, extVars>>

AuditOptions ==
    { EmptyMap,
      [action |-> S("INSERT")],
      [action |-> S("UPDATE")],
      [tableName |-> S("inventory")],
      [action |-> S("UPDATE"), tableName |-> S("inventory")] }

\* ============================================================= repairIndexes
\* the REINDEX TABLE statement of table t
ReindexOp(t) ==
    CASE t = "users" -> "reindex users"
      [] t = "connection_strings" -> "reindex connection_strings"
      [] t = "data_storage" -> "reindex data_storage"
      [] OTHER -> "reindex audit_logs"

RepairOps == {"pg_tables", "analyze"} \cup {ReindexOp(t) : t \in Range(requiredTables)}

\* a loop that gives up at the first rejected REINDEX
repairIndexesAborting ==
    /\ repair' =
          IF Rejects("pg_tables") \/ Rejects("analyze")
             \/ \E t \in tables : Rejects(ReindexOp(t))
          THEN [called |-> TRUE, success |-> FALSE, message |-> "Index repair failed",
                repairs |-> {}]
          ELSE [called |-> TRUE, success |-> TRUE, message |-> "Index repair completed",
                repairs |->
                    {Fixed("Reindexed table", t) : t \in tables}
                    \cup {Fixed("Updated table statistics", "")}]
    /\ UNCHANGED <<storeVars, extVars, tables, indexes, users, connection_strings, grants, failing, fix,
                   diag>>

\* REINDEX TABLE for every table of schema public, each in its own try, then
\* ANALYZE; a rejected REINDEX is recorded and the loop goes on, a rejected
\* pg_tables query or ANALYZE fails the call
repairIndexes ==
    /\ repair' =
          IF Rejects("pg_tables") \/ Rejects("analyze")
          THEN [called |-> TRUE, success |-> FALSE, message |-> "Index repair failed",
                repairs |-> {}]
          ELSE [called |-> TRUE, success |-> TRUE, message |-> "Index repair completed",
                repairs |->
                    {Fixed(IF Rejects(ReindexOp(t)) THEN "Failed to reindex"
                           ELSE "Reindexed table", t) : t \in tables}
                    \cup {Fixed("Updated table statistics", "")}]
    /\ UNCHANGED <<storeVars, extVars, tables, indexes, users, connection_strings, grants, failing, fix,
                   diag>>

\* ===================================================== the whole engine
\* One caller and the database service on a store that holds a record of a
\* principal and a record whose principal may be gone.
OrphanAudit == [OldAudit EXCEPT !.user_id = 2, !.record_id = 2]

\* the statements of repairIndexes that the engine's store may reject
EngineFailOps == {"pg_tables", ReindexOp("users"), "analyze"}

EnginePayloads == { [name |-> S("b"), password |-> S("s1")] }

InitAll ==
    /\ data_storage = [i \in {1, 2} |-> IF i = 1 THEN OldRow ELSE OrphanRow]
    /\ audit_logs = <<OldAudit, OrphanAudit>>
    /\ nextId = 3
    /\ clock = 1
    /\ proc = [p \in Procs |-> Idle]
    /\ calls = 0
    /\ mutated = {}
    /\ submitted = [i \in {} |-> EmptyMap]
    /\ tables = Range(requiredTables)
    /\ indexes = {ix.name : ix \in Range(requiredIndexes)}
    /\ users \in {{1, 2}, {1}}
    /\ connection_strings = [i \in {} |-> NoUser]
    /\ grants = PermissionProbes
    /\ failing \in {f \in SUBSET EngineFailOps : Cardinality(f) <= MaxFailing}
    /\ fix = <<>>
    /\ diag = NoDiag
    /\ repair = NoRepair
    /\ ExtIdle

\* every call of the caller and of the database service counts against MaxOps
Budget ==
    calls + Len(fix) + (IF diag.called THEN 1 ELSE 0) + (IF repair.called THEN 1 ELSE 0) < MaxOps

\* the engine's reads ask for the default page
EngineLimits == {DefaultLimit}

NextAll ==
    \/ \E p \in SeqCallers, t \in LogicalTables, d \in EnginePayloads, u \in Users,
          h \in NonStringOutcomes : Budget /\ insertWrite(p, t, d, u, h)
    \/ \E p \in SeqCallers : insertLog(p)
    \/ \E p \in SeqCallers, i \in Ids, d \in EnginePayloads, u \in Users :
          Budget /\ updateSelect(p, i, d, u)
    \/ \E p \in SeqCallers, h \in NonStringOutcomes : updateWrite(p, h)
    \/ \E p \in SeqCallers : updateLog(p)
    \/ \E p \in SeqCallers, i \in Ids, u \in Users : Budget /\ deleteSelect(p, i, u)
    \/ \E p \in SeqCallers : deleteWrite(p)
    \/ \E p \in SeqCallers : deleteLog(p)
    \/ \E p \in SeqCallers, t \in LogicalTables, u \in Users \cup {NoUser}, l \in EngineLimits :
          Budget /\ getSelect(p, t, u, l)
    \/ \E p \in SeqCallers : getCount(p)
    \/ \E p \in SeqCallers, t \in LogicalTables, u \in Users \cup {NoUser}, l \in EngineLimits :
          Budget /\ searchData(p, t, EmptyMap, u, l)
    \/ \E p \in SeqCallers, t \in LogicalTables, u \in Users \cup {NoUser} :
          Budget /\ exportData(p, t, u)
    \/ \E p \in SeqCallers, u \in Users \cup {NoUser}, o \in AuditOptions, l \in EngineLimits :
          Budget /\ getAuditLogs(p, u, o, l)
    \/ Budget /\ runDiagnostics
    \/ Budget /\ autoFixSchema
    \/ Budget /\ repairIndexes

SpecAll == InitAll /\ [][NextAll]_vars

\* ------------------------------------------------ repairIndexes on its own
\* Any of the service's tables may be missing from schema public, and any of
\* the statements of repairIndexes may be rejected.
InitRepair ==
    /\ data_storage = [i \in {} |-> OldRow]
    /\ audit_logs = <<>>
    /\ nextId = 1
    /\ clock = 0
    /\ proc = [p \in Procs |-> Idle]
    /\ calls = 0
    /\ mutated = {}
    /\ submitted = [i \in {} |-> EmptyMap]
    /\ tables \in SUBSET Range(requiredTables)
    /\ indexes = {ix.name : ix \in {r \in Range(requiredIndexes) : r.table \in tables}}
    /\ users = Users
    /\ connection_strings = [i \in {} |-> NoUser]
    /\ grants = PermissionProbes
    /\ failing \in {f \in SUBSET RepairOps : Cardinality(f) <= MaxFailing}
    /\ fix = <<>>
    /\ diag = NoDiag
    /\ repair = NoRepair
    /\ ExtIdle

NextRepair == repairIndexes

SpecRepair == InitRepair /\ [][NextRepair]_vars

\* ================================================================ loginUser
MaxLogins == 7
MaxTicks == 4

\* the grain of Date.now()
TickMinutes == 15

\* if (newAttempts >= 5)
MaxFailedAttempts == 5

\* Date.now() + 30 * 60 * 1000 in services/userService.js
LockMinutesPg == 30

\* Date.now() + 15 * 60 * 1000 in the Prisma user service
LockMinutesPrisma == 15

Variants == {"pg", "prisma"}

LockMinutes(v) == IF v = "pg" THEN LockMinutesPg ELSE LockMinutesPrisma

\* "alice" is the registered account, "right" its password
Usernames == {"alice", "nobody"}
Passwords == {"right", "wrong"}

\* the statements of loginUser that the store may reject
AuthOps == {"users_select", "users_update"}

\* user.locked_until && new Date() < new Date(user.locked_until)
Locked(user, t) == user.locked_until # NoLock /\ t < user.locked_until

\* what loginUser returns and the row it leaves
LoginOutcome(user, username, password, t, v) ==
    IF Rejects("users_select")
    THEN [success |-> FALSE, message |-> "Login failed", user |-> user]
    ELSE IF username # "alice"
    THEN [success |-> FALSE, message |-> "Invalid credentials", user |-> user]
    ELSE IF Locked(user, t)
    THEN [success |-> FALSE, message |-> "Account is temporarily locked", user |-> user]
    ELSE IF v = "pg" /\ ~user.is_active
    THEN [success |-> FALSE, message |-> "Account is deactivated", user |-> user]
    ELSE IF Rejects("users_update")
    THEN [success |-> FALSE, message |-> "Login failed", user |-> user]
    ELSE IF password # "right"
    THEN LET newAttempts == user.login_attempts + 1
         IN  [success |-> FALSE, message |-> "Invalid credentials",
              user |-> [user EXCEPT !.login_attempts = newAttempts,
                                    !.locked_until =
                                        IF newAttempts >= MaxFailedAttempts
                                        THEN t + LockMinutes(v) ELSE NoLock]]
    ELSE [success |-> TRUE, message |-> "",
          user |-> [user EXCEPT !.login_attempts = 0, !.locked_until = NoLock]]

\* loginUser(username, password): SELECT, the lock and activity checks,
\* bcrypt.compare, then one of the two UPDATEs
loginUser(username, password) ==
    /\ trail.logins < MaxLogins
    /\ LET out == LoginOutcome(account, username, password, now, variant)
           mine == username = "alice"
           failed == mine /\ ~out.success
           setLock == out.user.locked_until # account.locked_until
                      /\ out.user.locked_until # NoLock
           counted == failed /\ ~Locked(account, now)
           sinceExpiry == trail.sinceExpiry + (IF counted THEN 1 ELSE 0)
       IN  /\ account' = out.user
           /\ login' = [called |-> TRUE, username |-> username,
                        correct |-> password = "right", success |-> out.success,
                        message |-> out.message, at |-> now,
                        streak |-> trail.streak, fifthAt |-> trail.fifthAt,
                        lockedBefore |-> trail.lockedBefore, setLock |-> setLock,
                        sinceExpiry |-> sinceExpiry]
           /\ trail' =
                 IF out.success THEN [NoTrail EXCEPT !.logins = trail.logins + 1]
                 ELSE [logins |-> trail.logins + 1,
                       streak |-> trail.streak + (IF failed THEN 1 ELSE 0),
                       fifthAt |-> IF failed /\ trail.streak + 1 = MaxFailedAttempts
                                   THEN now ELSE trail.fifthAt,
                       lockedBefore |-> trail.lockedBefore \/ setLock,
                       sinceExpiry |-> IF setLock THEN 0 ELSE sinceExpiry]
    /\ UNCHANGED <<now, variant, storeVars, catVars, stringVars>>

\* time passes
Tick ==
    /\ now < MaxTicks * TickMinutes
    /\ now' = now + TickMinutes
    /\ UNCHANGED <<account, variant, login, trail, storeVars, catVars, stringVars>>

InitLogin ==
    /\ data_storage = [i \in {} |-> OldRow]
    /\ audit_logs = <<>>
    /\ nextId = 1
    /\ clock = 0
    /\ proc = [p \in Procs |-> Idle]
    /\ calls = 0
    /\ mutated = {}
    /\ submitted = [i \in {} |-> EmptyMap]
    /\ tables = Range(requiredTables)
    /\ indexes = {ix.name : ix \in Range(requiredIndexes)}
    /\ users = Users
    /\ connection_strings = [i \in {} |-> NoUser]
    /\ grants = PermissionProbes
    /\ failing \in {f \in SUBSET AuthOps : Cardinality(f) <= MaxFailing}
    /\ fix = <<>>
    /\ diag = NoDiag
    /\ repair = NoRepair
    /\ account \in {[NewAccount EXCEPT !.is_active = a] : a \in BOOLEAN}
    /\ now = 0
    /\ variant \in Variants
    /\ login = NoLogin
    /\ trail = NoTrail
    /\ dbUp = TRUE
    /\ test_strings = NoStrings
    /\ inMemoryStorage = <<>>
    /\ memNextId = 1
    /\ http = NoHttp

NextLogin ==
    \/ \E u \in Usernames, pw \in Passwords : loginUser(u, pw)
    \/ Tick

SpecLogin == InitLogin /\ [][NextLogin]_vars

\* ================================================== server.js: saved strings
MaxRequests == 4

\* req.body.inputString; the empty string is falsy
InputStrings == {"", "a", "b"}

\* req.params.id
StringIds == 1..MaxRequests

\* an entry; n is the number of the request that saved it
Item(id, s, n) == [id |-> id, input_string |-> s, n |-> n]

Respond(kind, id, status, message, data) ==
    [requests |-> http.requests + 1, kind |-> kind, id |-> id, status |-> status,
     message |-> message, data |-> data]

\* pool.query on test_strings goes through
Reaches == dbUp /\ test_strings.created

RemoveAt(seq, k) == [j \in 1..(Len(seq) - 1) |-> IF j < k THEN seq[j] ELSE seq[j + 1]]

\* findIndex: the first position holding id, 0 for -1
FindIndex(seq, id) ==
    IF \E k \in DOMAIN seq : seq[k].id = id
    THEN CHOOSE k \in DOMAIN seq : seq[k].id = id /\ \A j \in 1..(k - 1) : seq[j].id # id
    ELSE 0

\* POST /api/save-string
saveString(inputString) ==
    /\ http.requests < MaxRequests
    /\ IF inputString = ""
       THEN /\ http' = Respond("save", 0, 400, "Input string is required", <<>>)
            /\ UNCHANGED <<test_strings, inMemoryStorage, memNextId>>
       ELSE IF dbUp
       THEN LET row == Item(test_strings.serial, inputString, http.requests + 1)
            IN  /\ test_strings' = [created |-> TRUE,
                                    rows |-> Append(test_strings.rows, row),
                                    serial |-> test_strings.serial + 1]
                /\ http' = Respond("save", row.id, 200,
                                   "String saved successfully to database", <<row>>)
                /\ UNCHANGED <<inMemoryStorage, memNextId>>
       ELSE LET newItem == Item(memNextId, inputString, http.requests + 1)
            IN  /\ memNextId' = memNextId + 1
                /\ inMemoryStorage' = <<newItem>> \o inMemoryStorage
                /\ http' = Respond("save", newItem.id, 200,
                                   "String saved successfully (in-memory storage)",
                                   <<newItem>>)
                /\ UNCHANGED test_strings
    /\ UNCHANGED <<dbUp, storeVars, catVars, authVars>>

\* GET /api/strings
getStrings ==
    /\ http.requests < MaxRequests
    /\ http' = Respond("list", 0, 200, "",
                       IF Reaches THEN Reverse(test_strings.rows) ELSE inMemoryStorage)
    /\ UNCHANGED <<dbUp, test_strings, inMemoryStorage, memNextId, storeVars, catVars,
                   authVars>>

\* DELETE /api/strings/:id
deleteString(id) ==
    /\ http.requests < MaxRequests
    /\ IF Reaches
       THEN LET k == FindIndex(test_strings.rows, id)
            IN  /\ IF k = 0
                   THEN /\ http' = Respond("delete", id, 404, "String not found", <<>>)
                        /\ UNCHANGED test_strings
                   ELSE /\ http' = Respond("delete", id, 200, "String deleted successfully",
                                           <<test_strings.rows[k]>>)
                        /\ test_strings' = [test_strings EXCEPT
                                                !.rows = RemoveAt(test_strings.rows, k)]
                /\ UNCHANGED inMemoryStorage
       ELSE LET index == FindIndex(inMemoryStorage, id)
            IN  /\ IF index = 0
                   THEN /\ http' = Respond("delete", id, 404, "String not found", <<>>)
                        /\ UNCHANGED inMemoryStorage
                   ELSE /\ http' = Respond("delete", id, 200,
                                           "String deleted successfully (in-memory)",
                                           <<inMemoryStorage[index]>>)
                        /\ inMemoryStorage' = RemoveAt(inMemoryStorage, index)
                /\ UNCHANGED test_strings
    /\ UNCHANGED <<dbUp, memNextId, storeVars, catVars, authVars>>

\* the database becomes unreachable, or reachable again
dbToggle ==
    /\ dbUp' = ~dbUp
    /\ UNCHANGED <<test_strings, inMemoryStorage, memNextId, http, storeVars, catVars,
                   authVars>>

InitStrings ==
    /\ data_storage = [i \in {} |-> OldRow]
    /\ audit_logs = <<>>
    /\ nextId = 1
    /\ clock = 0
    /\ proc = [p \in Procs |-> Idle]
    /\ calls = 0
    /\ mutated = {}
    /\ submitted = [i \in {} |-> EmptyMap]
    /\ tables = Range(requiredTables)
    /\ indexes = {ix.name : ix \in Range(requiredIndexes)}
    /\ users = Users
    /\ connection_strings = [i \in {} |-> NoUser]
    /\ grants = PermissionProbes
    /\ failing = {}
    /\ fix = <<>>
    /\ diag = NoDiag
    /\ repair = NoRepair
    /\ account = NewAccount
    /\ now = 0
    /\ variant = "pg"
    /\ login = NoLogin
    /\ trail = NoTrail
    /\ dbUp \in BOOLEAN
    /\ test_strings = NoStrings
    /\ inMemoryStorage = <<>>
    /\ memNextId = 1
    /\ http = NoHttp

NextStrings ==
    \/ \E s \in InputStrings : saveString(s)
    \/ getStrings
    \/ \E id \in StringIds : deleteString(id)
    \/ dbToggle

SpecStrings == InitStrings /\ [][NextStrings]_vars

\* ================================================================== claims
Mutations == {"insert", "update", "delete"}

Returned(p) == proc[p].pc = "done"
Succeeded(p) == Returned(p) /\ proc[p].result.success

AuditOf(call) == {i \in DOMAIN audit_logs : audit_logs[i].call = call}

ActionOf(kind) ==
    IF kind = "insert" THEN "INSERT" ELSE IF kind = "update" THEN "UPDATE" ELSE "DELETE"

\* C1: every insertData, updateData or deleteData that returns success has
\* appended exactly one audit row for its mutation: same record id, its
\* action, the record's data before and after.
C1_OneAuditRowPerSuccess ==
    \A p \in Procs :
        (Succeeded(p) /\ proc[p].kind \in Mutations) =>
            /\ Cardinality(AuditOf(proc[p].call)) = 1
            /\ \A i \in AuditOf(proc[p].call) :
                  /\ audit_logs[i].record_id = proc[p].id
                  /\ audit_logs[i].action = ActionOf(proc[p].kind)
                  /\ audit_logs[i].old_values =
                        (IF proc[p].kind = "insert" THEN None
                         ELSE Some(proc[p].existing[1].data))
                  /\ audit_logs[i].new_values =
                        (IF proc[p].kind = "delete" THEN None
                         ELSE Some(proc[p].cleanData))

\* C2: updateData and deleteData called with the id of a record that
\* belongs to another owner fail, with the message "Record not found or
\* access denied" (unless the store rejected the ownership SELECT itself,
\* which fails the call with the handler's generic message), append no audit
\* row, and no step of such a call changes any row of data_storage.
WrongOwnerCall(st) == st.kind \in {"update", "delete"} /\ st.foreign

C2_WrongOwnerInv ==
    \A p \in Procs :
        (Returned(p) /\ WrongOwnerCall(proc[p])) =>
            /\ ~proc[p].result.success
            /\ (proc[p].threw \/ proc[p].result.message = NotFoundMsg)
            /\ AuditOf(proc[p].call) = {}
            /\ proc[p].call \notin mutated

C2_WrongOwnerStep ==
    \A p \in Procs :
        (proc'[p] # proc[p] /\ WrongOwnerCall(proc'[p])) =>
            /\ proc'[p].pc = "done"
            /\ data_storage' = data_storage
            /\ audit_logs' = audit_logs

C2_WrongOwnerRejected == []C2_WrongOwnerInv /\ [][C2_WrongOwnerStep]_vars

\* a wrong-owner updateData answered by the store: rejected, nothing changed
C2_Witness ==
    \E p \in Procs :
        /\ Returned(p) /\ WrongOwnerCall(proc[p]) /\ ~proc[p].threw
        /\ proc[p].result.message = NotFoundMsg
        /\ proc[p].id \in DOMAIN data_storage

\* C3: an updateData or deleteData returns success only if its own
\* conditioned UPDATE/DELETE statement changed or removed a row matching
\* (id, owner), whatever the other caller did between its SELECT and its
\* write.
C3_SuccessMeansOwnWrite ==
    \A p \in Procs :
        (Succeeded(p) /\ proc[p].kind \in {"update", "delete"}) =>
            /\ proc[p].call \in mutated
            /\ proc[p].affected = 1

\* a deleteData won the race against an updateData of the same record: the
\* update's write found no row
C3_Witness ==
    \E p, q \in Procs :
        /\ Succeeded(p) /\ proc[p].kind = "delete"
        /\ Returned(q) /\ proc[q].kind = "update" /\ proc[q].id = proc[p].id
        /\ proc[q].result.message = "Failed to update record"

\* C4: in no reachable state is a mutation of data_storage persisted
\* without its audit row, nor an audit row without its mutation.
C4_MutationAndAuditTogether ==
    mutated = {audit_logs[i].call : i \in DOMAIN audit_logs} \ {0}

\* C5: after a successful insertData(T, P, o), getData(T, o) returns the
\* record with the returned id (when the page holds the whole scope), its
\* decrypted data equal to P key by key.
Untouched(row) == row.updatedAt = row.createdAt

C5_RoundTrip ==
    \A p \in Procs :
        (Succeeded(p) /\ proc[p].kind = "get") =>
            LET rows == proc[p].result.rows
            IN  /\ Cardinality(Scope(proc[p].tableName, proc[p].userId)) <= proc[p].limit =>
                      \A i \in DOMAIN submitted \cap Scope(proc[p].tableName, proc[p].userId) :
                          \E k \in DOMAIN rows : rows[k].id = i
                /\ \A k \in DOMAIN rows :
                      (rows[k].id \in DOMAIN submitted /\ Untouched(rows[k])) =>
                          rows[k].data = submitted[rows[k].id]

\* C6: an updateData or deleteData that fails because no row matches
\* (id, owner) when it acts returns "Record not found or access denied",
\* whether the id never existed, was deleted (also between its SELECT and
\* its write), or belongs to another owner.
C6_OneNotFoundResult ==
    \A p \in Procs :
        (Returned(p) /\ proc[p].kind \in {"update", "delete"}
            /\ ~proc[p].result.success /\ ~proc[p].threw) =>
                proc[p].result = Fail(NotFoundMsg)


NoFailureIn(r) == r.success /\ \A f \in Range(r.fixes) : ~IsFailure(f)

C8_BestEffort ==
    \A k \in DOMAIN fix :
        /\ fix[k].success
        /\ fix[k].ran = <<"tables", "indexes", "orphans">>
        /\ fix[k].fixes = fix[k].collected

\* C9: when the probe fails, runDiagnostics fails as a whole and runs none
\* of the schema, permissions, performance and integrity checks.
C9_ProbeIsPrecondition ==
    (diag.called /\ ~diag.diagnostics.connection.success) =>
        (~diag.success /\ diag.ran = <<>>)

\* C10: a runDiagnostics result says 'healthy' exactly when each of the five
\* sub-checks reported success and 'issues_detected' otherwise, and it holds
\* the result of every sub-check, each as the store decides it alone.
C10_Inv ==
    diag.called =>
        /\ diag.success
        /\ DOMAIN diag.diagnostics = SubChecks
        /\ diag.health \in {"healthy", "issues_detected"}
        /\ (diag.health = "healthy" <=> \A c \in SubChecks : diag.diagnostics[c].success)

C10_Step ==
    diag' # diag =>
        LET d == diag'.diagnostics
            reads == {"users", "connection_strings", "data_storage"} \subseteq tables
        IN  /\ d.connection.success = ("probe" \notin failing)
            /\ d.schema.success = ("information_schema" \notin failing
                                    /\ Range(requiredTables) \subseteq tables)
            /\ d.permissions.success = ("permissions" \notin failing /\ "users" \in tables
                                         /\ grants = PermissionProbes)
            /\ d.performance.success = ("pg_stat_activity" \notin failing)
            /\ d.integrity.success =
                  ("integrity" \notin failing /\ reads
                   /\ (\A i \in DOMAIN connection_strings :
                          connection_strings[i] \in users \cup {NoUser})
                   /\ (\A j \in DOMAIN data_storage :
                          data_storage[j].user_id \in users \cup {NoUser}))

C10_HealthIffAllSucceeded == []C10_Inv /\ [][C10_Step]_vars

\* one sub-check failed, the four others kept their success
C10_Witness ==
    /\ diag.called
    /\ diag.health = "issues_detected"
    /\ ~diag.diagnostics.integrity.success
    /\ \A c \in SubChecks \ {"integrity"} : diag.diagnostics[c].success

\* C11: in every stored row the keys of data and the keys of
\* encrypted_fields are disjoint, after any insertData and updateData.
C11_KeySetsDisjoint ==
    \A i \in DOMAIN data_storage :
        Keys(data_storage[i].data) \cap Keys(data_storage[i].encrypted_fields) = {}

\* C12: the row a successful insertData(T, P, o) stored has as
\* encrypted_fields keys exactly the keys of P that the policy names, and as
\* data keys exactly the other keys of P, whatever the values.
C12_InsertSplitsByPolicy ==
    \A p \in Procs :
        (proc[p].kind = "insert" /\ Succeeded(p) /\ proc[p].id \in DOMAIN data_storage) =>
            LET row == data_storage[proc[p].id]
                P == proc[p].data
            IN  /\ Keys(row.encrypted_fields) = Keys(P) \cap fieldsToEncrypt
                /\ Keys(row.data) = Keys(P) \ fieldsToEncrypt
                /\ (Keys(P) \cap fieldsToEncrypt = {} => row.data = P)

\* C13: after a successful updateData(id, P, o), every field that was in
\* encrypted_fields before and is not a key of P has its prior ciphertext and
\* decrypts to its prior value, and every policy-named field of P decrypts
\* to the value P gives it.
C13_PartialUpdateOfEncryptedFields ==
    \A p \in Procs :
        (proc[p].kind = "update" /\ Succeeded(p) /\ proc[p].id \in DOMAIN data_storage) =>
            LET row == data_storage[proc[p].id]
                before == proc[p].existing[1].encrypted_fields
                P == proc[p].data
                view == DecryptedRow(proc[p].id).data
            IN  /\ \A f \in Keys(before) \ Keys(P) :
                      /\ f \in Keys(row.encrypted_fields)
                      /\ row.encrypted_fields[f] = before[f]
                      /\ f \in Keys(view) /\ view[f] = AESdecrypt(before[f])
                /\ \A f \in (Keys(P) \cap fieldsToEncrypt) :
                      f \in Keys(view) /\ view[f] = P[f]

\* C14: an insert whose payload is a string, not a field-to-value map, is
\* rejected with the validation error, stores no row and appends no audit
\* row.
FromText(data) == \E s \in TextBodies : data = SpreadOfText(s)

ContainsCI(text, s) ==
    \E i \in 0..(Len(text) - Len(s)) :
        \A j \in 1..Len(s) : Lower(text[i + j]) = Lower(s[j])

ViewMatches(i, criteria) ==
    LET view == DecryptedRow(i).data
    IN  \A key \in Keys(criteria) :
            /\ key \in Keys(view)
            /\ ContainsCI(Chars(view[key].v), Chars(criteria[key].v))

C15_SearchReturnsExactlyTheMatches ==
    \A p \in Procs :
        (Returned(p) /\ proc[p].kind = "search" /\ ~proc[p].threw) =>
            LET st == proc[p]
                page == Take(Descending({i \in Scope(st.tableName, st.userId) :
                                            ViewMatches(i, st.data)}), st.limit)
            IN  /\ st.result.success
                /\ st.result.rows = [k \in DOMAIN page |-> DecryptedRow(page[k])]

\* C16: a getData, searchData or exportData that meets a row one of whose
\* ciphertexts does not decrypt still succeeds when the store answers; in
\* its output that field is absent from the row, and every other field of
\* every returned row has its stored or decrypted value.
Reads == {"get", "search", "export"}

C16_FieldLevelDegradation ==
    \A p \in Procs :
        (Returned(p) /\ proc[p].kind \in Reads /\ ~proc[p].threw) =>
            /\ proc[p].result.success
            /\ \A k \in DOMAIN proc[p].result.rows :
                  LET out == proc[p].result.rows[k].data
                      row == data_storage[proc[p].result.rows[k].id]
                  IN  /\ \A f \in Keys(row.encrypted_fields) :
                            IF IsGarbled(row.encrypted_fields[f])
                            THEN f \notin Keys(out)
                            ELSE f \in Keys(out) /\ out[f] = AESdecrypt(row.encrypted_fields[f])
                      /\ \A f \in Keys(row.data) \ Keys(row.encrypted_fields) :
                            f \in Keys(out) /\ out[f] = row.data[f]

\* C17: no step of insertData, updateData, deleteData, the reads,
\* getAuditLogs, runDiagnostics, autoFixSchema or repairIndexes removes or
\* changes a row of audit_logs: every step leaves each existing row as it
\* was, in its place, and at most appends.
C17_AuditAppendOnly ==
    [][/\ Len(audit_logs') >= Len(audit_logs)
       /\ \A i \in DOMAIN audit_logs : audit_logs'[i] = audit_logs[i]]_vars

\* the trail grew by an insertData, then autoFixSchema removed the record
\* of a missing principal, whose audit row is still there
C17_Witness ==
    /\ Len(audit_logs) = 3
    /\ audit_logs[2] = OrphanAudit
    /\ 2 \notin DOMAIN data_storage
    /\ Len(fix) = 1

\* C18: a row leaves data_storage only in the DELETE statement of a
\* deleteData whose caller owns it, and once no deleteData of it is still
\* under way every row that has left has exactly one DELETE audit row; this
\* for every operation, autoFixSchema included.
C18_RemovedByOwnDelete ==
    \A i \in DOMAIN data_storage \ DOMAIN data_storage' :
        \E p \in Procs :
            /\ proc[p].pc = "delete_write"
            /\ proc[p].id = i
            /\ proc[p].userId = data_storage[i].user_id

C18_RemovedHasOneAuditRow ==
    \A i \in (1..(nextId - 1)) \ DOMAIN data_storage :
        (\A p \in Procs : ~(proc[p].pc = "delete_log" /\ proc[p].id = i)) =>
            Cardinality({k \in DOMAIN audit_logs :
                            audit_logs[k].action = "DELETE" /\ audit_logs[k].record_id = i}) = 1

C18_RemovalOnlyByAuditedDelete ==
    []C18_RemovedHasOneAuditRow /\ [][C18_RemovedByOwnDelete]_vars

\* the audit rows the calls have written: each has one of the three actions,
\* an entry of an insert has no old values, an entry of a delete no new
\* values, and the entry a call wrote has the action of that call
AuditEntriesNamed(create) ==
    /\ \A i \in {k \in DOMAIN audit_logs : audit_logs[k].call # 0} :
          LET r == audit_logs[i]
          IN  /\ r.action \in {create, "UPDATE", "DELETE"}
              /\ (r.action = create => (r.old_values = None /\ r.new_values # None))
              /\ (r.action = "UPDATE" => (r.old_values # None /\ r.new_values # None))
              /\ (r.action = "DELETE" => (r.old_values # None /\ r.new_values = None))
    /\ \A p \in Procs :
          proc[p].kind \in Mutations =>
              \A i \in AuditOf(proc[p].call) :
                  audit_logs[i].action =
                      (IF proc[p].kind = "insert" THEN create
                       ELSE IF proc[p].kind = "update" THEN "UPDATE" ELSE "DELETE")

\* C19 (as stated): every audit row has action CREATE, UPDATE or DELETE: the
\* row of an insertData has CREATE and no old values, the row of an
\* updateData UPDATE, the row of a deleteData DELETE and no new values.
C19_ActionsCreateUpdateDelete == AuditEntriesNamed("CREATE")

\* C19 (amended): every audit row has action INSERT, UPDATE or DELETE: the
\* row of an insertData has INSERT and no old values, the row of an
\* updateData UPDATE, the row of a deleteData DELETE and no new values.
C19_ActionsInsertUpdateDelete == AuditEntriesNamed("INSERT")

\* an insertData and a deleteData have each written their audit row
C19_Witness ==
    /\ \E i \in DOMAIN audit_logs : audit_logs[i].call # 0 /\ audit_logs[i].action = "INSERT"
    /\ \E i \in DOMAIN audit_logs : audit_logs[i].call # 0 /\ audit_logs[i].action = "DELETE"

\* C20: every audit row names the logical table of the record it is about,
\* so a getAuditLogs the store answers returns, newest first within the page,
\* exactly the audit rows that match the user and action filters given and,
\* when a table T is given, are about a record of T; with no filter, every
\* row.
AboutMatches(r, userId, options) ==
    /\ (userId # NoUser => r.user_id = userId)
    /\ (Opt(options, "action") # NoFilter => r.action = Opt(options, "action"))
    /\ (Opt(options, "tableName") # NoFilter => r.logical = Opt(options, "tableName"))

C20_AuditRowsNameTheLogicalTable ==
    /\ \A i \in DOMAIN audit_logs : audit_logs[i].table_name = audit_logs[i].logical
    /\ \A p \in Procs :
          (Returned(p) /\ proc[p].kind = "audit" /\ ~proc[p].threw) =>
              /\ proc[p].result.success
              /\ proc[p].result.rows =
                    Take(Reverse(SelectSeq(audit_logs,
                            LAMBDA r : AboutMatches(r, proc[p].userId, proc[p].data))),
                         proc[p].limit)

\* C21: a successful getData(T, owner, limit) returns only rows of table T
\* owned by owner, each a different live record, at most limit of them and
\* as many as the scope and the limit allow, with total the number of live
\* records of T owned by owner; with no owner given the same over the
\* records of T of all owners.
LiveOf(tableName, userId) ==
    {i \in DOMAIN data_storage :
        /\ data_storage[i].table_name = tableName
        /\ (userId = NoUser \/ data_storage[i].user_id = userId)}

C22_DiagnosticsOnlyRead ==
    [][diag' # diag =>
          UNCHANGED <<tables, indexes, data_storage, audit_logs, users,
                      connection_strings>>]_vars

\* a report that found an orphaned record and left it in place
C22_Witness ==
    /\ diag.called
    /\ diag.diagnostics.integrity.message = "Orphaned records detected"
    /\ OrphanedDS(data_storage, users) # {}
    /\ audit_logs # <<>>


\* C23: when the only statements of a repairIndexes call that the store
\* rejects are REINDEX statements, the call succeeds and its list names every
\* table exactly once: "Failed to reindex" for each table whose REINDEX was
\* rejected, "Reindexed table" for every other table, and the statistics
\* update after them.
ReindexFailures == {t \in tables : Rejects(ReindexOp(t))}

C23_RepairGoesOnPastAFailedTable ==
    (repair.called /\ ~Rejects("pg_tables") /\ ~Rejects("analyze")) =>
        /\ repair.success
        /\ repair.repairs =
              {Fixed("Failed to reindex", t) : t \in ReindexFailures}
              \cup {Fixed("Reindexed table", t) : t \in tables \ ReindexFailures}
              \cup {Fixed("Updated table statistics", "")}

\* a repair in which one table's REINDEX was rejected and another's was not
C23_Witness ==
    /\ repair.called /\ repair.success
    /\ \E t, u \in tables :
          /\ Fixed("Failed to reindex", t) \in repair.repairs
          /\ Fixed("Reindexed table", u) \in repair.repairs


\* C24: a login made after five failed attempts in a row, less than the
\* documented 30 minutes after the fifth of them, is rejected whatever the
\* password; and a successful login leaves the account with a failed-attempt
\* count of 0 and no lock.
DocumentedLockMinutes == 30

C24_LockedForThirtyMinutes ==
    (login.called /\ login.username = "alice") =>
        /\ (login.streak >= MaxFailedAttempts
            /\ login.at < login.fifthAt + DocumentedLockMinutes) => ~login.success
        /\ login.success => (account.login_attempts = 0 /\ account.locked_until = NoLock)


\* C30: a failed login locks an account that was locked before, and has not
\* been logged into since, only when it is at least the fifth failed attempt
\* made since that lock ran out.
C30_RelockNeedsFiveFurtherFailures ==
    (login.called /\ login.setLock /\ login.lockedBefore) =>
        login.sinceExpiry >= MaxFailedAttempts


\* C25: whether the database is reachable or not at each request, the list
\* that GET /api/strings returns holds every entry that was saved and not
\* deleted since; and after DELETE /api/strings/:id answered with the entry
\* it removed, that entry has the id asked for and no saved entry with that
\* id is left.
LiveStrings ==
    {test_strings.rows[k] : k \in DOMAIN test_strings.rows}
        \cup {inMemoryStorage[k] : k \in DOMAIN inMemoryStorage}

C25_SavedStringsStayListed ==
    /\ (http.kind = "list" /\ http.status = 200) =>
          \A e \in LiveStrings : \E k \in DOMAIN http.data : http.data[k] = e
    /\ (http.kind = "delete" /\ http.status = 200) =>
          /\ Len(http.data) = 1 /\ http.data[1].id = http.id
          /\ \A e \in LiveStrings : e.id # http.id


\* C26: the audit row of a successful updateData holds, as old_values, the
\* data the record held immediately before that call's UPDATE statement and,
\* as new_values, the data it held immediately after, whatever other
\* updateData calls on the record ran in between its statements.
C26_UpdateAuditBracketsTheWrite ==
    \A p \in Procs :
        (Succeeded(p) /\ proc[p].kind = "update") =>
            \A i \in AuditOf(proc[p].call) :
                /\ audit_logs[i].old_values = proc[p].prior
                /\ audit_logs[i].new_values = Some(proc[p].cleanData)


\* C29: no map of an audit row holds, under the name of an encrypted field,
\* the plaintext of that field: neither a value the logging call encrypted
\* from its payload, nor the plaintext of a ciphertext the record held when
\* the call read it or holds now.  (A ciphertext of the empty message hides
\* nothing and is left aside.)
Maps(r) == {r.old_values[k] : k \in DOMAIN r.old_values}
               \cup {r.new_values[k] : k \in DOMAIN r.new_values}

Plaintexts(encryptedFields) ==
    {<<f, AESdecrypt(encryptedFields[f])>> :
        f \in {g \in Keys(encryptedFields) :
                  ~IsGarbled(encryptedFields[g]) /\ encryptedFields[g].ct # ""}}

SecretsOf(st) ==
    {<<f, st.data[f]>> : f \in EncryptedKeys(st.data)}
        \cup (IF st.existing = None THEN {} ELSE Plaintexts(st.existing[1].encrypted_fields))

Holds(m, secret) == secret[1] \in Keys(m) /\ m[secret[1]] = secret[2]

C29_NoPlaintextInAuditTrail ==
    /\ \A p \in Procs :
          (Returned(p) /\ proc[p].kind \in Mutations) =>
              \A i \in AuditOf(proc[p].call) : \A m \in Maps(audit_logs[i]) :
                  \A secret \in SecretsOf(proc[p]) : ~Holds(m, secret)
    /\ \A i \in DOMAIN audit_logs :
          audit_logs[i].record_id \in DOMAIN data_storage =>
              \A m \in Maps(audit_logs[i]) :
                  \A secret \in Plaintexts(data_storage[audit_logs[i].record_id].encrypted_fields) :
                      ~Holds(m, secret)

\* an update that encrypted a field of a record that already held a
\* ciphertext, and was logged
C29_Witness ==
    \E p \in Procs :
        /\ Succeeded(p) /\ proc[p].kind = "update"
        /\ EncryptedKeys(proc[p].data) # {}
        /\ Plaintexts(proc[p].existing[1].encrypted_fields) # {}
        /\ \E i \in AuditOf(proc[p].call) :
              audit_logs[i].old_values # None /\ audit_logs[i].new_values # None


\* C28: when two updateData calls on the same record have both succeeded, one
\* having supplied only password and the other only token of the encrypted
\* fields, the record holds the ciphertext of the password the one supplied
\* and the ciphertext of the token the other supplied.
C28_NoLostEncryptedField ==
    \A p, q \in Procs :
        ( /\ p # q
          /\ Succeeded(p) /\ proc[p].kind = "update"
          /\ Succeeded(q) /\ proc[q].kind = "update"
          /\ proc[p].id = proc[q].id
          /\ EncryptedKeys(proc[p].data) = {"password"}
          /\ EncryptedKeys(proc[q].data) = {"token"}
          /\ proc[p].id \in DOMAIN data_storage ) =>
            LET stored == data_storage[proc[p].id].encrypted_fields
            IN  /\ {"password", "token"} \subseteq Keys(stored)
                /\ stored["password"] = Ct(proc[p].data["password"].v)
                /\ stored["token"] = Ct(proc[q].data["token"].v)


\* C27: when an autoFixSchema call returns a fix list that records no
\* failure, checkIntegrity run on the database it leaves counts zero orphaned
\* rows; and every row an autoFixSchema call removes from data_storage or
\* connection_strings had a non-null user_id that named no row of users.
C27_AutoFixLeavesNoOrphans ==
    [][Len(fix') = Len(fix) + 1 =>
          /\ NoFailureIn(fix'[Len(fix')]) =>
                LET after == checkIntegrity(tables', users', connection_strings',
                                            data_storage')
                IN  after.success /\ after.hasData /\ after.totalOrphaned = 0
          /\ \A i \in DOMAIN data_storage \ DOMAIN data_storage' :
                Orphaned(data_storage[i].user_id, users)
          /\ \A i \in DOMAIN connection_strings \ DOMAIN connection_strings' :
                Orphaned(connection_strings[i], users)
          /\ \A i \in DOMAIN data_storage' : data_storage'[i] = data_storage[i]
          /\ \A i \in DOMAIN connection_strings' :
                connection_strings'[i] = connection_strings[i]]_vars

\* a run that removed the orphaned rows, kept the row without an owner, and
\* left a database with no orphan
C27_Witness ==
    /\ fix # <<>>
    /\ NoFailureIn(fix[Len(fix)])
    /\ \E f \in Range(fix[Len(fix)].fixes) : f.what = "Cleaned up orphaned records"
    /\ \E i \in DOMAIN data_storage : data_storage[i].user_id = NoUser
    /\ OrphanedDS(data_storage, users) = {}
    /\ OrphanedCS(connection_strings, users) = {}

====
